---- MODULE Spec2Model ----
(***************************************************************************)
(* reflex-clerk-api: the session state holder (ClerkState), the deferred   *)
(* on_load registry, the rendezvous waiter (wait_for_auth_check) and the   *)
(* provider composition (clerk_provider).                                  *)
(*                                                                         *)
(* Time is counted in units of half a second: the default timeout of 1.0 s *)
(* is 2 units.  One asyncio.sleep(0.05) is shorter than a unit: a sleeping *)
(* waiter may wake before the clock advances, and sleeps through at most   *)
(* MaxSleepTicks advances of the clock.  A waiter's `elapsed` is the value *)
(* of time.time() - start_time.                                            *)
(*                                                                         *)
(* Each session has one wait_for_auth_check task at a time: the task of    *)
(* its current page load.  A session starts its next page load once the    *)
(* task of the previous one has returned.                                  *)
(***************************************************************************)
EXTENDS Integers, Sequences, FiniteSets, TLC

\* ------------------------------------------------------------------ bounds
Sessions == {"A", "B"}          \* browser sessions, each with its own ClerkState
MaxPages == 2                   \* add_page(..., on_load=on_load(...)) calls in one run
MaxSleepTicks == 1              \* clock ticks one asyncio.sleep(0.05) may span
MaxProviders == 2               \* successful clerk_provider calls in one run
MaxPending == 2                 \* getToken() promises of one page not yet resolved
MaxQueue == 2                   \* events of one page sent and not yet processed
MaxUsers == 3                   \* Clerk users that may carry TEST_EMAIL

\* ------------------------------------------------------- program constants
DefaultTimeout == 2             \* _auth_wait_timeout_seconds = 1.0, in half seconds

None == "None"                  \* Python's None
UnknownUid == 0                 \* a uuid that on_load never issued
NoUser == 0                     \* no user returned by the create_test_user fixture

\* Notifications (rx.toast.*).
LoggedInToast == "toast.success: Logged in!"
LoggedOutToast == "toast.success: Logged out!"
DevResetToast == "toast.success: Dev reset!"
DefaultToast == "toast.info: Auth check complete (no on_loads)!"
TimeoutToast == "toast.error: Auth check timed out!"

\* What an event handler returned: a list of actions, or one bare action.
AsList(items) == [isList |-> TRUE, items |-> items]
AsSingle(item) == [isList |-> FALSE, items |-> <<item>>]
NoResult == [isList |-> FALSE, items |-> <<>>]

\* Arguments on_load is called with: None, one bare handler, or a list.
OnLoadInputs ==
    { [kind |-> "none", items |-> <<>>],
      [kind |-> "single", items |-> <<"do_something_on_load">>],
      [kind |-> "list", items |-> <<"do_something_on_load", "other_handler">>] }

\* Secret keys handed to clerk_provider.
SecretKeys == {None, "", "sk_test_1", "sk_live_2"}

\* Values handed to set_auth_wait_timeout_seconds, in half seconds.
TimeoutValues == {-1, 0, 1, DefaultTimeout}

VARIABLES
    is_logged_in,       \* ClerkState.is_logged_in, per session
    auth_checked,       \* ClerkState.auth_checked, per session
    last_event,         \* history: the last state-holder event a session processed
    last_toast,         \* what that event handler returned
    timeout,            \* ClerkState._auth_wait_timeout_seconds
    on_load_events,     \* ClerkState._on_load_events: uid -> list of deferred actions
    uuid_count,         \* number of uuids uuid.uuid4() has issued
    pages,              \* what on_load returned for each page added to the app
    secret_key,         \* ClerkState._secret_key
    providers,          \* number of ClerkProvider components created
    last_call,          \* history: the last clerk_provider call and its outcome
    waiter,             \* the wait_for_auth_check task of each session
    frontend,           \* ClerkSessionSynchronizer of each session's browser page
    queue,              \* events passed to addEvents, not yet processed, per session
    clerk_users,        \* ids of the Clerk users that carry TEST_EMAIL
    fixture             \* the create_test_user fixture of the test run

vars == <<is_logged_in, auth_checked, last_event, last_toast, timeout,
          on_load_events, uuid_count, pages, secret_key, providers, last_call,
          waiter, frontend, queue, clerk_users, fixture>>

sessionVars == <<is_logged_in, auth_checked, last_event, last_toast>>
setupVars == <<secret_key, providers, last_call>>
registryVars == <<on_load_events, uuid_count, pages>>
testVars == <<clerk_users, fixture>>

\* pc: "idle" (no task), "start" (task created, not yet run), "sleep" (inside
\* asyncio.sleep), "done" (returned).  slept counts the clock ticks of the
\* current sleep.  observed and event_in_time are history: a poll saw
\* auth_checked true; a login or logout event was processed while the task
\* was waiting and before its timeout had elapsed.
IdleWaiter ==
    [pc |-> "idle", uid |-> UnknownUid, elapsed |-> 0, slept |-> 0,
     result |-> NoResult, observed |-> FALSE, event_in_time |-> FALSE]

\* The synchronizer after its first render: useAuth() has not loaded, and the
\* effect has run once and dispatched nothing.  isLoaded, isSignedIn
\* ("undefined", "true", "false") and addEvents are what the component reads;
\* pending counts the getToken() promises not yet resolved.  History: at_load
\* (loaded, and isSignedIn has not changed since), load_ready (addEvents was
\* available when the SDK loaded), load_changed (isSignedIn took a new value
\* in the render where isLoaded became true), dispatched (events passed to
\* addEvents since isSignedIn last changed), last_dispatched, and sent (events
\* passed to addEvents since the page was opened, counted up to MaxQueue + 1).
MountedFrontend ==
    [isLoaded |-> FALSE, isSignedIn |-> "undefined", addEvents |-> FALSE,
     pending |-> 0, at_load |-> FALSE, load_ready |-> FALSE,
     load_changed |-> FALSE, dispatched |-> 0, last_dispatched |-> "none",
     sent |-> 0]

\* pc: "idle" (not requested), "listed" (users.list has answered), "done"
\* (returned or raised).  existing is the answer of users.list (None, or the
\* users found), creates the number of users.create calls, result the user
\* returned (NoUser if none), outcome how the fixture ended.
IdleFixture ==
    [pc |-> "idle", existing |-> [isNone |-> TRUE, users |-> {}], creates |-> 0,
     result |-> NoUser, outcome |-> "none"]

Init ==
    /\ is_logged_in = [s \in Sessions |-> FALSE]
    /\ auth_checked = [s \in Sessions |-> FALSE]
    /\ last_event = [s \in Sessions |-> "none"]
    /\ last_toast = [s \in Sessions |-> "none"]
    /\ timeout = DefaultTimeout
    /\ on_load_events = << >>
    /\ uuid_count = 0
    /\ pages = << >>
    /\ secret_key = None
    /\ providers = 0
    /\ last_call = [key |-> None, outcome |-> "none"]
    /\ waiter = [s \in Sessions |-> IdleWaiter]
    /\ frontend = [s \in Sessions |-> MountedFrontend]
    /\ queue = [s \in Sessions |-> << >>]
    /\ clerk_users = {}
    /\ fixture = IdleFixture

\* ---------------------------------------------------------------- helpers
\* Mutant of Active: a task that returned the timeout error runs its loop again.
ActiveRetry(s) ==
    \/ waiter[s].pc \in {"start", "sleep"}
    \/ waiter[s].pc = "done" /\ ~waiter[s].result.isList

\* The task exists and has not returned.
Active(s) == waiter[s].pc \in {"start", "sleep"}

\* Mutant of background: the waiter as an ordinary, blocking event handler.
backgroundOff == FALSE

\* @rx.event(background=True): the waiter runs as a background task, so it
\* does not hold the session's event processing while it waits.
background == TRUE

\* The host framework processes the events of one session one at a time: a
\* handler that is not a background task occupies the session until it returns.
SessionBusy(s) == Active(s) /\ ~background

\* History bookkeeping for the waiter of session s when a login or logout
\* event is processed: the event came before the waiter's timeout elapsed.
NoteEvent(s) ==
    IF Active(s) /\ waiter[s].elapsed < timeout
    THEN [waiter EXCEPT ![s].event_in_time = TRUE]
    ELSE waiter

\* ... and when dev_reset clears auth_checked again.
NoteReset(s) ==
    IF Active(s)
    THEN [waiter EXCEPT ![s].event_in_time = FALSE]
    ELSE waiter

\* ------------------------------------------------- session state holder
\* Mutant of set_clerk_session: the login flips is_logged_in instead of setting it.
set_clerk_session_toggles(s) ==
    /\ ~SessionBusy(s)
    /\ is_logged_in' = [is_logged_in EXCEPT ![s] = ~is_logged_in[s]]
    /\ auth_checked' = [auth_checked EXCEPT ![s] = TRUE]
    /\ last_event' = [last_event EXCEPT ![s] = "set_clerk_session"]
    /\ last_toast' = [last_toast EXCEPT ![s] = LoggedInToast]
    /\ waiter' = NoteEvent(s)
    /\ UNCHANGED <<timeout, registryVars, setupVars, testVars, frontend>>

\* Mutant of set_clerk_session: the login sets is_logged_in and leaves
\* auth_checked as it was.
set_clerk_session_unchecked(s) ==
    /\ ~SessionBusy(s)
    /\ is_logged_in' = [is_logged_in EXCEPT ![s] = TRUE]
    /\ last_event' = [last_event EXCEPT ![s] = "set_clerk_session"]
    /\ last_toast' = [last_toast EXCEPT ![s] = LoggedInToast]
    /\ waiter' = NoteEvent(s)
    /\ UNCHANGED <<auth_checked, timeout, registryVars, setupVars, testVars, frontend>>

set_clerk_session(s) ==
    /\ ~SessionBusy(s)
    /\ is_logged_in' = [is_logged_in EXCEPT ![s] = TRUE]
    /\ auth_checked' = [auth_checked EXCEPT ![s] = TRUE]
    /\ last_event' = [last_event EXCEPT ![s] = "set_clerk_session"]
    /\ last_toast' = [last_toast EXCEPT ![s] = LoggedInToast]
    /\ waiter' = NoteEvent(s)
    /\ UNCHANGED <<timeout, registryVars, setupVars, testVars, frontend>>

\* Mutant of clear_clerk_session: the logout forgets to clear is_logged_in.
clear_clerk_session_keeps_login(s) ==
    /\ ~SessionBusy(s)
    /\ auth_checked' = [auth_checked EXCEPT ![s] = TRUE]
    /\ last_event' = [last_event EXCEPT ![s] = "clear_clerk_session"]
    /\ last_toast' = [last_toast EXCEPT ![s] = LoggedOutToast]
    /\ waiter' = NoteEvent(s)
    /\ UNCHANGED <<is_logged_in, timeout, registryVars, setupVars, testVars, frontend>>

clear_clerk_session(s) ==
    /\ ~SessionBusy(s)
    /\ is_logged_in' = [is_logged_in EXCEPT ![s] = FALSE]
    /\ auth_checked' = [auth_checked EXCEPT ![s] = TRUE]
    /\ last_event' = [last_event EXCEPT ![s] = "clear_clerk_session"]
    /\ last_toast' = [last_toast EXCEPT ![s] = LoggedOutToast]
    /\ waiter' = NoteEvent(s)
    /\ UNCHANGED <<timeout, registryVars, setupVars, testVars, frontend>>

\* Mutant of dev_reset: the reset leaves auth_checked as it was.
dev_reset_keeps_checked(s) ==
    /\ ~SessionBusy(s)
    /\ is_logged_in' = [is_logged_in EXCEPT ![s] = FALSE]
    /\ last_event' = [last_event EXCEPT ![s] = "dev_reset"]
    /\ last_toast' = [last_toast EXCEPT ![s] = DevResetToast]
    /\ waiter' = NoteReset(s)
    /\ UNCHANGED <<auth_checked, timeout, registryVars, setupVars, testVars, frontend, queue>>

dev_reset(s) ==
    /\ ~SessionBusy(s)
    /\ is_logged_in' = [is_logged_in EXCEPT ![s] = FALSE]
    /\ auth_checked' = [auth_checked EXCEPT ![s] = FALSE]
    /\ last_event' = [last_event EXCEPT ![s] = "dev_reset"]
    /\ last_toast' = [last_toast EXCEPT ![s] = DevResetToast]
    /\ waiter' = NoteReset(s)
    /\ UNCHANGED <<timeout, registryVars, setupVars, testVars, frontend, queue>>

\* ------------------------------------------------------ class-level setup
set_auth_wait_timeout_seconds(seconds) ==
    /\ timeout' = seconds
    /\ UNCHANGED <<sessionVars, registryVars, setupVars, testVars, waiter, frontend, queue>>

\* Mutant of Falsy: `if secret_key is None`, which lets the empty string pass.
FalsyNoneOnly(k) == k = None

\* `if not secret_key`: None and the empty string are both falsy.
Falsy(k) == k = None \/ k = ""

\* set_secret_key: whether it raised ValueError, and the stored key afterwards.
set_secret_key(k) ==
    IF Falsy(k)
    THEN [raised |-> TRUE, key |-> secret_key]
    ELSE [raised |-> FALSE, key |-> k]

\* clerk_provider: set_secret_key first; ClerkProvider.create only if it returned.
clerk_provider(k) ==
    LET r == set_secret_key(k) IN
    /\ r.raised \/ providers < MaxProviders
    /\ secret_key' = r.key
    /\ providers' = IF r.raised THEN providers ELSE providers + 1
    /\ last_call' = [key |-> k,
                     outcome |-> IF r.raised THEN "ValueError" ELSE "created"]
    /\ UNCHANGED <<sessionVars, timeout, registryVars, waiter, frontend, queue,
                   testVars>>

\* --------------------------------------------------- deferred registry
\* Mutant of uuid4: an id generator that returns the id it issued last.
uuid4Repeated == IF uuid_count = 0 THEN 1 ELSE uuid_count

\* uuid.uuid4(): a value no earlier call returned.
uuid4 == uuid_count + 1

\* on_load_list: the argument itself if it is a list, else a one-element list.
on_load_list(x) == IF x.kind = "list" THEN x.items ELSE <<x.items[1]>>

\* What on_load returns: None, or [ClerkState.wait_for_auth_check(uid)].
WaitAction(uid) == [handler |-> "wait_for_auth_check", uid |-> uid]

\* Mutant of set_on_load_events: the registry is replaced by the new entry.
set_on_load_events_replaces(uid, events) ==
    [u \in {uid} |-> events]

\* set_on_load_events: cls._on_load_events[uid] = on_load_events
set_on_load_events(uid, events) ==
    [u \in DOMAIN on_load_events \cup {uid} |->
        IF u = uid THEN events ELSE on_load_events[u]]

\* on_load(x), called as the on_load argument of app.add_page.
on_load(x) ==
    IF x.kind = "none"
    THEN /\ pages' = Append(pages, NoResult)
         /\ UNCHANGED <<on_load_events, uuid_count>>
    ELSE /\ on_load_events' = set_on_load_events(uuid4, on_load_list(x))
         /\ uuid_count' = uuid_count + 1
         /\ pages' = Append(pages, AsList(<<WaitAction(uuid4)>>))

\* app.add_page(page, on_load=clerk.on_load(x))
add_page(x) ==
    /\ Len(pages) < MaxPages
    /\ on_load(x)
    /\ UNCHANGED <<sessionVars, timeout, setupVars, testVars, waiter, frontend, queue>>

\* ----------------------------------------------------- rendezvous waiter
\* The framework starts wait_for_auth_check(uid) as a task of session s.
StartWaiter(s, uid) ==
    /\ waiter[s].pc \in {"idle", "done"}
    /\ ~SessionBusy(s)
    /\ waiter' = [waiter EXCEPT ![s] = [IdleWaiter EXCEPT !.pc = "start", !.uid = uid]]
    /\ UNCHANGED <<sessionVars, timeout, registryVars, setupVars, testVars, frontend, queue>>

\* A session loads page p: the framework runs the page's on_load actions.
page_load(s, p) ==
    /\ p \in 1..Len(pages)
    /\ pages[p].isList
    /\ StartWaiter(s, pages[p].items[1].uid)

\* The frontend sends wait_for_auth_check with a uid on_load never issued.
wait_for_auth_check(s) == StartWaiter(s, UnknownUid)

\* while time.time() - start_time < self._auth_wait_timeout_seconds
LoopCond(s) == waiter[s].elapsed < timeout

\* Mutant of AuthObserved: the waiter does not look at auth_checked.
AuthObservedAlways(s) == TRUE

\* Mutant of AuthObserved: auth_checked kept on the class, shared by all sessions.
AuthObservedAnySession(s) == \E t \in Sessions : auth_checked[t]

\* if self.auth_checked
AuthObserved(s) == auth_checked[s]

\* Mutant of RegistryGet: no default notification for an unknown uid.
RegistryGetNoDefault(uid) ==
    IF uid \in DOMAIN on_load_events
    THEN AsList(on_load_events[uid])
    ELSE AsList(<< >>)

\* self._on_load_events.get(uid, [rx.toast.info(...)])
RegistryGet(uid) ==
    IF uid \in DOMAIN on_load_events
    THEN AsList(on_load_events[uid])
    ELSE AsList(<<DefaultToast>>)

\* Mutant of RegistryAfterGet: dict.pop instead of dict.get.
RegistryAfterPop(uid) ==
    [u \in DOMAIN on_load_events \ {uid} |-> on_load_events[u]]

\* The registry after dict.get: get removes nothing.
RegistryAfterGet(uid) == on_load_events

\* Mutant of TimeoutReturn: the deferred actions are released on timeout too.
TimeoutReturnsEntry(uid) ==
    IF uid \in DOMAIN on_load_events
    THEN AsList(on_load_events[uid])
    ELSE AsList(<<DefaultToast>>)

\* return rx.toast.error("Auth check timed out!")
TimeoutReturn(uid) == AsSingle(TimeoutToast)

\* Mutant of Poll: on timeout the task marks the auth check as done.
PollMarksChecked(s) ==
    LET uid == waiter[s].uid IN
    /\ Active(s)
    /\ IF LoopCond(s)
       THEN /\ IF AuthObserved(s)
               THEN /\ waiter' = [waiter EXCEPT ![s].pc = "done",
                                                ![s].observed = TRUE,
                                                ![s].result = RegistryGet(uid)]
                    /\ on_load_events' = RegistryAfterGet(uid)
               ELSE /\ waiter' = [waiter EXCEPT ![s].pc = "sleep", ![s].slept = 0]
                    /\ UNCHANGED on_load_events
            /\ UNCHANGED auth_checked
       ELSE /\ waiter' = [waiter EXCEPT ![s].pc = "done",
                                        ![s].result = TimeoutReturn(uid)]
            /\ auth_checked' = [auth_checked EXCEPT ![s] = TRUE]
            /\ UNCHANGED on_load_events
    /\ UNCHANGED <<is_logged_in, last_event, last_toast, timeout, uuid_count, pages,
                   setupVars, testVars, frontend, queue>>

\* One run of the task between two awaits: the loop condition, the check of
\* auth_checked, and either a return or the start of asyncio.sleep(0.05).
Poll(s) ==
    LET uid == waiter[s].uid IN
    /\ Active(s)
    /\ IF LoopCond(s)
       THEN IF AuthObserved(s)
            THEN /\ waiter' = [waiter EXCEPT ![s].pc = "done",
                                             ![s].observed = TRUE,
                                             ![s].result = RegistryGet(uid)]
                 /\ on_load_events' = RegistryAfterGet(uid)
            ELSE /\ waiter' = [waiter EXCEPT ![s].pc = "sleep", ![s].slept = 0]
                 /\ UNCHANGED on_load_events
       ELSE /\ waiter' = [waiter EXCEPT ![s].pc = "done",
                                        ![s].result = TimeoutReturn(uid)]
            /\ UNCHANGED on_load_events
    /\ UNCHANGED <<sessionVars, timeout, uuid_count, pages, setupVars, testVars, frontend, queue>>

\* Half a second passes for the tasks that have taken their start_time; a
\* task that has slept through MaxSleepTicks ticks wakes before the next one.
Tick ==
    /\ \E s \in Sessions : waiter[s].pc = "sleep"
    /\ \A s \in Sessions : waiter[s].pc = "sleep" => waiter[s].slept < MaxSleepTicks
    /\ waiter' = [s \in Sessions |->
                    IF waiter[s].pc = "sleep"
                    THEN [waiter[s] EXCEPT !.elapsed = @ + 1, !.slept = @ + 1]
                    ELSE waiter[s]]
    /\ UNCHANGED <<sessionVars, timeout, registryVars, setupVars, testVars, frontend, queue>>

\* ------------------------------------------- ClerkSessionSynchronizer
\* The values useAuth() gives for isSignedIn once it is known.
SignedValues == {"true", "false"}

\* JavaScript truthiness of isSignedIn: undefined and false are falsy.
Truthy(v) == v = "true"

\* The event the effect sends for a value of isSignedIn.
EventFor(v) == IF Truthy(v) THEN "set_clerk_session" ELSE "clear_clerk_session"

\* The effect's dependency array is [isSignedIn]: after the first render the
\* effect runs again only in a render where isSignedIn differs from the
\* previous one; a change of isLoaded alone does not run it.
DepsWithLoaded(oldSigned, newSigned, oldLoaded, newLoaded) ==
    oldSigned # newSigned \/ oldLoaded # newLoaded

DepsChanged(oldSigned, newSigned, oldLoaded, newLoaded) ==
    oldSigned # newSigned

\* addEvents([Event(name)]): the event joins the page's queue to the backend.
Dispatched(f, name) ==
    [f EXCEPT !.dispatched = @ + 1, !.last_dispatched = name,
              !.sent = IF @ <= MaxQueue THEN @ + 1 ELSE @]

\* The effect body run in a render that leaves the component as f.
Effect(s, f) ==
    IF f.isLoaded /\ f.addEvents
    THEN IF Truthy(f.isSignedIn)
         THEN /\ f.pending < MaxPending
              /\ frontend' = [frontend EXCEPT ![s] = [f EXCEPT !.pending = @ + 1]]
              /\ UNCHANGED queue
         ELSE /\ Len(queue[s]) < MaxQueue
              /\ frontend' = [frontend EXCEPT
                                ![s] = Dispatched(f, "clear_clerk_session")]
              /\ queue' = [queue EXCEPT ![s] = Append(@, "clear_clerk_session")]
    ELSE /\ frontend' = [frontend EXCEPT ![s] = f]
         /\ UNCHANGED queue

\* The EventLoopContext starts to provide addEvents; it is not a dependency
\* of the effect.
ProvideAddEvents(s) ==
    /\ ~frontend[s].addEvents
    /\ frontend' = [frontend EXCEPT ![s].addEvents = TRUE]
    /\ UNCHANGED <<sessionVars, timeout, registryVars, setupVars, testVars, waiter, queue>>

\* useAuth() reports isLoaded = true together with isSignedIn = v.
SdkLoad(s, v) ==
    LET old == frontend[s]
        f == [old EXCEPT !.isLoaded = TRUE, !.isSignedIn = v, !.at_load = TRUE,
                         !.load_ready = old.addEvents,
                         !.load_changed = (old.isSignedIn # v),
                         !.dispatched = 0]
    IN /\ ~old.isLoaded
       /\ IF DepsChanged(old.isSignedIn, v, old.isLoaded, TRUE)
          THEN Effect(s, f)
          ELSE /\ frontend' = [frontend EXCEPT ![s] = f]
               /\ UNCHANGED queue
       /\ UNCHANGED <<sessionVars, timeout, registryVars, setupVars, testVars, waiter>>

\* useAuth() reports a new value v of isSignedIn (sign-in or sign-out).
SdkChange(s, v) ==
    LET old == frontend[s]
        f == [old EXCEPT !.isSignedIn = v, !.at_load = FALSE, !.dispatched = 0]
    IN /\ old.isSignedIn # v
       /\ IF DepsChanged(old.isSignedIn, v, old.isLoaded, old.isLoaded)
          THEN Effect(s, f)
          ELSE /\ frontend' = [frontend EXCEPT ![s] = f]
               /\ UNCHANGED queue
       /\ UNCHANGED <<sessionVars, timeout, registryVars, setupVars, testVars, waiter>>

\* A getToken() promise resolves and its callback sends the login event,
\* whatever isSignedIn has become since the effect ran.
TokenResolveDropped(s) ==
    /\ frontend[s].pending > 0
    /\ Len(queue[s]) < MaxQueue
    /\ frontend' = [frontend EXCEPT ![s].pending = @ - 1]
    /\ UNCHANGED <<sessionVars, timeout, registryVars, setupVars, testVars, waiter, queue>>

TokenResolve(s) ==
    /\ frontend[s].pending > 0
    /\ Len(queue[s]) < MaxQueue
    /\ frontend' = [frontend EXCEPT
                      ![s] = Dispatched([@ EXCEPT !.pending = @ - 1],
                                        "set_clerk_session")]
    /\ queue' = [queue EXCEPT ![s] = Append(@, "set_clerk_session")]
    /\ UNCHANGED <<sessionVars, timeout, registryVars, setupVars, testVars, waiter>>

\* The backend processes the oldest event of the page's queue.
Deliver(s) ==
    /\ queue[s] # << >>
    /\ queue' = [queue EXCEPT ![s] = Tail(@)]
    /\ IF Head(queue[s]) = "set_clerk_session"
       THEN set_clerk_session(s)
       ELSE clear_clerk_session(s)

\* The browser opens (or reloads) page p in session s: the page's script
\* starts again with the synchronizer in its first render, and the framework
\* runs the page's on_load actions.  The session's ClerkState is kept.
browser_load(s, p) ==
    /\ p \in 1..Len(pages)
    /\ pages[p].isList
    /\ waiter[s].pc \in {"idle", "done"}
    /\ ~SessionBusy(s)
    /\ queue[s] = << >> /\ frontend[s].pending = 0
    /\ waiter' = [waiter EXCEPT ![s] = [IdleWaiter EXCEPT
                                          !.pc = "start",
                                          !.uid = pages[p].items[1].uid]]
    /\ frontend' = [frontend EXCEPT ![s] = MountedFrontend]
    /\ UNCHANGED <<sessionVars, timeout, registryVars, setupVars, testVars, queue>>

\* ------------------------------------------------ test-user fixture
\* Ids the Clerk instance can give to users that carry TEST_EMAIL.
UserIds == 1..MaxUsers

\* Outside the test run, users with TEST_EMAIL are created or deleted in the
\* Clerk instance (dashboard, earlier runs); not between the fixture's calls.
clerk_instance_change(S) ==
    /\ fixture.pc # "listed"
    /\ S # clerk_users
    /\ clerk_users' = S
    /\ UNCHANGED <<sessionVars, timeout, registryVars, setupVars, waiter, frontend,
                   queue, fixture>>

\* clerk_client.users.list(request={"email_address": [TEST_EMAIL]}): the users
\* found; the client may answer None when there are none.
users_list(isNone) ==
    /\ fixture.pc \in {"idle", "done"}
    /\ isNone => clerk_users = {}
    /\ fixture' = [IdleFixture EXCEPT
                      !.pc = "listed",
                      !.existing = [isNone |-> isNone, users |-> clerk_users]]
    /\ UNCHANGED <<sessionVars, timeout, registryVars, setupVars, waiter, frontend,
                   queue, clerk_users>>

\* existing is not None and len(existing) > 0
FoundExisting(existing) == ~existing.isNone /\ Cardinality(existing.users) > 0

\* Mutant of Multiple: more than one existing user is never reported.
MultipleIgnored(existing) == Cardinality(existing.users) > MaxUsers + 1

\* len(existing) != 1
Multiple(existing) == Cardinality(existing.users) # 1

\* The id clerk_client.users.create gives the new user.
NewUserId == CHOOSE u \in UserIds : u \notin clerk_users

\* The rest of create_test_user after users.list: raise SetupError, return
\* the existing user, or call users.create and return its result; created
\* tells whether users.create answered with the user (else `assert res is
\* not None` fails).
create_test_user(created) ==
    /\ fixture.pc = "listed"
    /\ IF FoundExisting(fixture.existing)
       THEN /\ created
            /\ IF Multiple(fixture.existing)
               THEN fixture' = [fixture EXCEPT !.pc = "done",
                                               !.outcome = "SetupError"]
               ELSE fixture' = [fixture EXCEPT
                                  !.pc = "done", !.outcome = "returned existing",
                                  !.result = CHOOSE u \in fixture.existing.users : TRUE]
            /\ UNCHANGED clerk_users
       ELSE /\ clerk_users # UserIds
            /\ clerk_users' = clerk_users \cup {NewUserId}
            /\ fixture' = [fixture EXCEPT
                              !.pc = "done", !.creates = @ + 1,
                              !.outcome = IF created THEN "created"
                                          ELSE "AssertionError",
                              !.result = IF created THEN NewUserId ELSE NoUser]
    /\ UNCHANGED <<sessionVars, timeout, registryVars, setupVars, waiter, frontend,
                   queue>>

\* ------------------------------------------------------- specifications
\* Serving: pages are added, sessions load them, the frontend sends events.
Next ==
    \/ \E s \in Sessions : set_clerk_session(s) /\ UNCHANGED queue
    \/ \E s \in Sessions : clear_clerk_session(s) /\ UNCHANGED queue
    \/ \E s \in Sessions : dev_reset(s)
    \/ \E x \in OnLoadInputs : add_page(x)
    \/ \E s \in Sessions, p \in 1..MaxPages : page_load(s, p)
    \/ \E s \in Sessions : wait_for_auth_check(s)
    \/ \E s \in Sessions : Poll(s)
    \/ Tick

Spec == Init /\ [][Next]_vars

\* Application construction: provider composition and class-level settings.
NextSetup ==
    \/ \E k \in SecretKeys : clerk_provider(k)
    \/ \E t \in TimeoutValues : set_auth_wait_timeout_seconds(t)
    \/ \E x \in OnLoadInputs : add_page(x)

SpecSetup == Init /\ [][NextSetup]_vars

\* One session with every operation of the module: construction and serving.
FirstSession == "A"
OneKeys == {"", "sk_test_1"}                \* a rejected and an accepted secret key
OneTimeouts == {-1, 0, DefaultTimeout}      \* negative, zero and the default timeout

NextOne ==
    \/ set_clerk_session(FirstSession) /\ UNCHANGED queue
    \/ clear_clerk_session(FirstSession) /\ UNCHANGED queue
    \/ dev_reset(FirstSession)
    \/ \E k \in OneKeys : clerk_provider(k)
    \/ \E t \in OneTimeouts : set_auth_wait_timeout_seconds(t)
    \/ \E x \in OnLoadInputs : add_page(x)
    \/ \E p \in 1..MaxPages : page_load(FirstSession, p)
    \/ wait_for_auth_check(FirstSession)
    \/ Poll(FirstSession)
    \/ Tick

SpecOne == Init /\ [][NextOne]_vars

\* The event loop runs a ready task up to its next await, and the clock advances.
SpecOneLive == SpecOne /\ WF_vars(Poll(FirstSession)) /\ WF_vars(Tick)

\* One browser page with the synchronizer, its session in the backend, and
\* the demo's reset button.
NextSync ==
    \/ ProvideAddEvents(FirstSession)
    \/ \E v \in SignedValues : SdkLoad(FirstSession, v)
    \/ \E v \in SignedValues : SdkChange(FirstSession, v)
    \/ TokenResolve(FirstSession)
    \/ Deliver(FirstSession)
    \/ dev_reset(FirstSession)

SpecSync == Init /\ [][NextSync]_vars

\* Every pending getToken() resolves and every queued event is processed.
SpecSyncLive ==
    SpecSync /\ WF_vars(TokenResolve(FirstSession)) /\ WF_vars(Deliver(FirstSession))

\* One session whose browser opens and reloads pages that use on_load: the
\* synchronizer of the open page, the waiter of the page load, the backend.
NextPage ==
    \/ \E x \in OnLoadInputs : add_page(x)
    \/ \E p \in 1..MaxPages : browser_load(FirstSession, p)
    \/ ProvideAddEvents(FirstSession)
    \/ \E v \in SignedValues : SdkLoad(FirstSession, v)
    \/ \E v \in SignedValues : SdkChange(FirstSession, v)
    \/ TokenResolve(FirstSession)
    \/ Deliver(FirstSession)
    \/ Poll(FirstSession)
    \/ Tick

SpecPage == Init /\ [][NextPage]_vars

\* The test run: the Clerk instance as it is found, and the fixture.
NextTest ==
    \/ \E S \in SUBSET UserIds : clerk_instance_change(S)
    \/ \E isNone \in BOOLEAN : users_list(isNone)
    \/ \E created \in BOOLEAN : create_test_user(created)

SpecTest == Init /\ [][NextTest]_vars

\* ------------------------------------------------------------- properties
Returned(s) == waiter[s].pc = "done"
FromPageLoad(s) == waiter[s].pc # "idle" /\ waiter[s].uid # UnknownUid
Released(s) == Returned(s) /\ waiter[s].result.isList
SyncEvents == {"set_clerk_session", "clear_clerk_session"}

\* C1: whenever wait_for_auth_check returns a list of actions (the deferred
\* actions or the default), auth_checked is true in that session at that
\* moment and the session's last state-holder event was a login or a logout.
C1_ReleasedAfterSync ==
    [][\A s \in Sessions :
          (waiter[s].pc # "done" /\ waiter'[s].pc = "done" /\ waiter'[s].result.isList)
              => (auth_checked'[s] /\ last_event'[s] \in SyncEvents)]_vars

C1_Witness ==
    \E s \in Sessions :
        /\ Released(s) /\ FromPageLoad(s)
        /\ waiter[s].uid \in DOMAIN on_load_events
        /\ waiter[s].result = AsList(on_load_events[waiter[s].uid])

\* C2 (as claimed): a waiter that was waiting when a login or logout event was
\* processed, before its timeout had elapsed and with no dev_reset since,
\* returns exactly the deferred actions registered for its uid.
C2_EventInTimeReleases ==
    \A s \in Sessions :
        (Returned(s) /\ waiter[s].event_in_time /\ waiter[s].uid \in DOMAIN on_load_events)
            => waiter[s].result = AsList(on_load_events[waiter[s].uid])

\* C3: a waiter that returned without any poll having seen auth_checked true
\* returned the single error notification, not a list of deferred actions.
C3_TimeoutReturnsError ==
    \A s \in Sessions :
        (Returned(s) /\ ~waiter[s].observed)
            => /\ waiter[s].result = AsSingle(TimeoutToast)
               /\ ~waiter[s].result.isList

C3_Witness ==
    \E s \in Sessions :
        /\ Returned(s) /\ ~waiter[s].observed
        /\ waiter[s].uid \in DOMAIN on_load_events
        /\ waiter[s].elapsed >= timeout

\* C4: after a login the session is logged in, after a logout it is not, and
\* auth_checked is true after either.
C4_FlagsFollowLastEvent ==
    \A s \in Sessions :
        last_event[s] \in SyncEvents
            => /\ is_logged_in[s] = (last_event[s] = "set_clerk_session")
               /\ auth_checked[s]

C4_Witness ==
    /\ last_event["A"] = "clear_clerk_session" /\ ~is_logged_in["A"]
    /\ last_event["B"] = "set_clerk_session" /\ is_logged_in["B"]

\* C5: after dev_reset both flags of the session are false.
C5_DevResetClears ==
    \A s \in Sessions :
        last_event[s] = "dev_reset" => (~is_logged_in[s] /\ ~auth_checked[s])

C5_Witness ==
    \E s \in Sessions : last_event[s] = "dev_reset" /\ waiter[s].pc = "sleep"

\* C6: a waiter whose uid has no registry entry and that saw auth_checked
\* true returned a list holding the default notification and nothing else.
C6_DefaultForUnknownUid ==
    \A s \in Sessions :
        (Returned(s) /\ waiter[s].observed /\ waiter[s].uid \notin DOMAIN on_load_events)
            => waiter[s].result = AsList(<<DefaultToast>>)

C6_Witness ==
    \E s \in Sessions :
        Returned(s) /\ waiter[s].observed /\ waiter[s].uid \notin DOMAIN on_load_events

\* C7 (as claimed): a successful waiter consumes the registry entry of its
\* uid, and no second waiter receives the same entry.
C7_ReadOnce ==
    /\ \A s \in Sessions :
          (Released(s) /\ FromPageLoad(s)) => waiter[s].uid \notin DOMAIN on_load_events
    /\ \A s1, s2 \in Sessions :
          (s1 # s2 /\ Released(s1) /\ Released(s2) /\ FromPageLoad(s1)
             /\ waiter[s1].uid = waiter[s2].uid)
              => waiter[s1].result # waiter[s2].result

\* C7 (amended): a successful waiter leaves the registry entry in place, and
\* every waiter that succeeds for a registered uid returns that entry.
C7_EntryKept ==
    \A s \in Sessions :
        (Released(s) /\ FromPageLoad(s))
            => /\ waiter[s].uid \in DOMAIN on_load_events
               /\ waiter[s].result = AsList(on_load_events[waiter[s].uid])

C7_Witness ==
    /\ Released("A") /\ Released("B") /\ FromPageLoad("A")
    /\ waiter["A"].uid = waiter["B"].uid
    /\ waiter["A"].result = waiter["B"].result

\* C8 (as claimed): no two page loads run their waiters with the same uid.
C8_FreshPerPageLoad ==
    \A s1, s2 \in Sessions :
        (s1 # s2 /\ FromPageLoad(s1) /\ FromPageLoad(s2))
            => waiter[s1].uid # waiter[s2].uid

\* C8 (amended): the uid is generated once per on_load call, so pages added
\* with deferred actions have pairwise different uids, each with a registry
\* entry, and every load of a page runs its waiter with that page's uid.
C8_FreshPerOnLoadCall ==
    /\ \A p, q \in 1..Len(pages) :
          (p # q /\ pages[p].isList /\ pages[q].isList)
              => pages[p].items[1].uid # pages[q].items[1].uid
    /\ \A p \in 1..Len(pages) :
          pages[p].isList => pages[p].items[1].uid \in DOMAIN on_load_events
    /\ \A s \in Sessions :
          FromPageLoad(s)
              => \E p \in 1..Len(pages) :
                    pages[p].isList /\ pages[p].items[1].uid = waiter[s].uid

C8_Witness ==
    /\ Len(pages) = 2 /\ pages[1].isList /\ pages[2].isList
    /\ FromPageLoad("A") /\ FromPageLoad("B")
    /\ waiter["A"].uid = waiter["B"].uid

\* C9: clerk_provider with None or the empty string as secret key raises
\* ValueError, creates no provider component and leaves the stored key alone.
C9_FailFast ==
    [][\A k \in {None, ""} :
          clerk_provider(k)
              => /\ last_call'.outcome = "ValueError"
                 /\ providers' = providers
                 /\ secret_key' = secret_key]_vars

C9_Witness ==
    /\ last_call = [key |-> "", outcome |-> "ValueError"]
    /\ providers > 0
    /\ secret_key = "sk_test_1"

\* C10: while a session's waiter is between two polls, the session's login,
\* logout and dev_reset events can all be processed.
C10_EventsEnabledWhileWaiting ==
    \A s \in Sessions :
        waiter[s].pc = "sleep"
            => /\ ENABLED set_clerk_session(s)
               /\ ENABLED clear_clerk_session(s)
               /\ ENABLED dev_reset(s)

C10_Witness ==
    \E s \in Sessions :
        waiter[s].pc = "sleep" /\ waiter[s].event_in_time /\ auth_checked[s]

\* C11: a login, logout or dev_reset of one session leaves the flags and the
\* waiter of every other session as they were, and a waiter returns a list of
\* actions only in a step after which auth_checked is true in its own session.
C11_SessionsIndependent ==
    [][\A s, t \in Sessions :
          s # t =>
            /\ (set_clerk_session(s) \/ clear_clerk_session(s) \/ dev_reset(s))
                  => /\ is_logged_in'[t] = is_logged_in[t]
                     /\ auth_checked'[t] = auth_checked[t]
                     /\ waiter'[t] = waiter[t]
            /\ (waiter[t].pc # "done" /\ waiter'[t].pc = "done"
                  /\ waiter'[t].result.isList)
                  => auth_checked'[t]]_vars

C11_Witness ==
    /\ auth_checked["A"] /\ ~auth_checked["B"]
    /\ waiter["B"].pc = "sleep" /\ waiter["B"].elapsed >= 1
    /\ FromPageLoad("B")

\* C19 (as claimed): whenever wait_for_auth_check returns the timeout error,
\* auth_checked is false in its session at that moment.
C19_TimeoutOnlyIfUnchecked ==
    [][\A s \in Sessions :
          (waiter[s].pc # "done" /\ waiter'[s].pc = "done"
             /\ waiter'[s].result = AsSingle(TimeoutToast))
              => ~auth_checked'[s]]_vars

\* C14: a step of the waiter, of on_load / add_page, of clerk_provider
\* (set_secret_key) or of set_auth_wait_timeout_seconds leaves both flags of
\* every session unchanged; the flags change only in a step of
\* set_clerk_session, clear_clerk_session or dev_reset.
C14_OnlyEventsWriteFlags ==
    [][/\ ( \/ \E s \in Sessions : Poll(s)
            \/ \E s \in Sessions : wait_for_auth_check(s)
            \/ \E s \in Sessions, p \in 1..MaxPages : page_load(s, p)
            \/ \E x \in OnLoadInputs : add_page(x)
            \/ \E k \in SecretKeys : clerk_provider(k)
            \/ \E t \in TimeoutValues : set_auth_wait_timeout_seconds(t)
            \/ Tick )
          => UNCHANGED <<is_logged_in, auth_checked>>
       /\ (is_logged_in' # is_logged_in \/ auth_checked' # auth_checked)
          => \E s \in Sessions :
                set_clerk_session(s) \/ clear_clerk_session(s) \/ dev_reset(s)]_vars

C14_Witness ==
    /\ is_logged_in[FirstSession] /\ auth_checked[FirstSession]
    /\ Returned(FirstSession)
    /\ waiter[FirstSession].result = AsSingle(TimeoutToast)
    /\ timeout # DefaultTimeout
    /\ secret_key # None
    /\ Len(pages) > 0

\* C16: every waiter that was started returns, and a task that has returned
\* keeps its result: after the timeout error no later step, login and logout
\* included, makes that task release the deferred actions.
C16_TerminatesAndTimeoutFinal ==
    /\ \A s \in Sessions : Active(s) ~> Returned(s)
    /\ [][\A s \in Sessions :
             (Returned(s) /\ waiter'[s].pc = "done")
                 => waiter'[s].result = waiter[s].result]_vars

C16_Witness ==
    /\ Returned(FirstSession)
    /\ waiter[FirstSession].result = AsSingle(TimeoutToast)
    /\ FromPageLoad(FirstSession)
    /\ ~waiter[FirstSession].event_in_time
    /\ auth_checked[FirstSession]
    /\ last_event[FirstSession] = "set_clerk_session"

\* C20 (as claimed): a waiter whose first check finds auth_checked true
\* returns, in that step, the registry entry of its uid or the default list,
\* whatever the configured timeout.
C20_FirstCheckReleases ==
    [][\A s \in Sessions :
          (waiter[s].pc = "start" /\ auth_checked[s] /\ waiter'[s].pc # "start")
              => /\ waiter'[s].pc = "done"
                 /\ waiter'[s].result = RegistryGet(waiter[s].uid)]_vars

\* The flags and the returned notification of session s are as they were.
SameSessionState(s) ==
    /\ is_logged_in'[s] = is_logged_in[s]
    /\ auth_checked'[s] = auth_checked[s]
    /\ last_toast'[s] = last_toast[s]

\* C15: set_clerk_session, clear_clerk_session and dev_reset can be applied in
\* every state, each returns its notification, and applying one right after
\* itself leaves the session's flags and notification as the first left them.
C15_IdempotentNeverFail ==
    /\ [](\A s \in Sessions :
            /\ ENABLED set_clerk_session(s)
            /\ ENABLED clear_clerk_session(s)
            /\ ENABLED dev_reset(s))
    /\ [][\A s \in Sessions :
            /\ set_clerk_session(s)
                => /\ last_toast'[s] = LoggedInToast
                   /\ last_event[s] = "set_clerk_session" => SameSessionState(s)
            /\ clear_clerk_session(s)
                => /\ last_toast'[s] = LoggedOutToast
                   /\ last_event[s] = "clear_clerk_session" => SameSessionState(s)
            /\ dev_reset(s)
                => /\ last_toast'[s] = DevResetToast
                   /\ last_event[s] = "dev_reset" => SameSessionState(s)]_vars

C15_Witness ==
    /\ last_event["A"] = "set_clerk_session" /\ last_toast["A"] = LoggedInToast
    /\ is_logged_in["A"] /\ auth_checked["A"]
    /\ last_event["B"] = "dev_reset" /\ last_toast["B"] = DevResetToast
    /\ ~is_logged_in["B"] /\ ~auth_checked["B"]
    /\ Active("A")

\* ----------------------------------------------- synchronizer properties
AtLoad(s) ==
    /\ frontend[s].isLoaded /\ frontend[s].at_load
    /\ frontend[s].load_ready /\ frontend[s].pending = 0

Drained(s) == queue[s] = << >> /\ frontend[s].pending = 0

C13_AtMostOnePerChange ==
    \A s \in Sessions : frontend[s].dispatched <= 1

SdkSignedOut(s) ==
    /\ frontend[s].isLoaded /\ frontend[s].addEvents
    /\ frontend[s].isSignedIn = "false"

SdkSignedIn(s) == frontend[s].isSignedIn = "true"

\* C17: from a loaded, signed-out page, if isSignedIn becomes true and stays
\* true, the backend session eventually has is_logged_in and auth_checked
\* both true, when pending tokens resolve and queued events are processed.
C17_SignInReachesBackend ==
    \A s \in Sessions :
        [](SdkSignedOut(s) =>
              (<>[]SdkSignedIn(s) => <>(is_logged_in[s] /\ auth_checked[s])))

C17_Witness ==
    \E s \in Sessions :
        /\ frontend[s].isLoaded /\ ~frontend[s].at_load /\ SdkSignedIn(s)
        /\ frontend[s].dispatched = 1
        /\ frontend[s].last_dispatched = "set_clerk_session"
        /\ Drained(s)
        /\ last_event[s] = "set_clerk_session"
        /\ is_logged_in[s] /\ auth_checked[s]

\* C18: once every dispatched event has been processed and no token is being
\* fetched, is_logged_in equals the SDK's current signed-in value, also when
\* the SDK signed in and out again while the first getToken() was pending.
C18_AgreesWhenDrained ==
    \A s \in Sessions :
        (frontend[s].isLoaded /\ Drained(s) /\ last_event[s] \in SyncEvents)
            => (is_logged_in[s] <=> SdkSignedIn(s))

\* C22: in every reachable state of every session, is_logged_in implies
\* auth_checked, under any interleaving of set_clerk_session,
\* clear_clerk_session, dev_reset and the steps of the waiters.
C22_LoggedInImpliesChecked ==
    \A s \in Sessions : is_logged_in[s] => auth_checked[s]

C22_Witness ==
    \E s \in Sessions :
        /\ is_logged_in[s] /\ auth_checked[s]
        /\ last_event[s] = "set_clerk_session"
        /\ waiter[s].pc = "sleep" /\ waiter[s].elapsed > 0
        /\ \E r \in Sessions \ {s} : last_event[r] = "dev_reset" /\ ~auth_checked[r]

\* ------------------------------------------------- page-load properties
\* An event the synchronizer of the open page dispatched has been processed.
Synced(s) == frontend[s].sent > Len(queue[s])

\* C21: the deferred actions of a page load are released only after a login
\* or logout event dispatched by the synchronizer in that same page load has
\* been processed; auth_checked left from an earlier page load releases nothing.
C21_ReleasedAfterOwnSync ==
    \A s \in Sessions : (Released(s) /\ FromPageLoad(s)) => Synced(s)

C23_DispatchNeedsLoaded ==
    [][\A s \in Sessions :
          Len(queue'[s]) > Len(queue[s])
             => (frontend'[s].isLoaded /\ frontend'[s].addEvents)]_vars

\* ---------------------------------------------------- on_load properties
\* What the last on_load call returned.
LastReturned == pages'[Len(pages')]

\* C24: on_load(None) returns None and registers nothing; on_load(x) for a
\* non-None x adds exactly one registry entry under an id not present before,
\* holding x itself if x is a list and [x] otherwise, leaves every existing
\* entry unchanged, and returns a list of exactly one wait_for_auth_check
\* action carrying that id.
C24_OnLoadRegistersOne ==
    [][\A x \in OnLoadInputs :
          add_page(x) =>
             /\ Len(pages') = Len(pages) + 1
             /\ IF x.kind = "none"
                THEN /\ LastReturned = NoResult
                     /\ on_load_events' = on_load_events
                ELSE \E u \in DOMAIN on_load_events' \ DOMAIN on_load_events :
                        /\ DOMAIN on_load_events' = DOMAIN on_load_events \cup {u}
                        /\ on_load_events'[u] =
                              (IF x.kind = "list" THEN x.items ELSE <<x.items[1]>>)
                        /\ \A v \in DOMAIN on_load_events :
                              on_load_events'[v] = on_load_events[v]
                        /\ LastReturned = AsList(<<WaitAction(u)>>)]_vars

C24_Witness ==
    /\ Len(pages) = 2 /\ pages[1].isList /\ pages[2].isList
    /\ DOMAIN on_load_events = {pages[1].items[1].uid, pages[2].items[1].uid}
    /\ on_load_events[pages[1].items[1].uid] = <<"do_something_on_load">>
    /\ on_load_events[pages[2].items[1].uid] = <<"do_something_on_load", "other_handler">>

\* ------------------------------------------------ test-user properties
\* C25: create_test_user returns the existing user without calling create
\* when exactly one user with the test email exists, raises SetupError
\* without creating or returning a user when more than one exists, and calls
\* create exactly once only when none exists.
C25_NeverDuplicates ==
    [][(fixture.pc = "listed" /\ fixture'.pc = "done") =>
          LET n == Cardinality(clerk_users) IN
          /\ n = 1 => /\ fixture'.outcome = "returned existing"
                      /\ fixture'.result \in clerk_users
                      /\ fixture'.creates = 0
                      /\ clerk_users' = clerk_users
          /\ n > 1 => /\ fixture'.outcome = "SetupError"
                      /\ fixture'.result = NoUser
                      /\ fixture'.creates = 0
                      /\ clerk_users' = clerk_users
          /\ n = 0 => /\ fixture'.creates = 1
                      /\ Cardinality(clerk_users') = 1
                      /\ fixture'.outcome \in {"created", "AssertionError"}
          /\ fixture'.creates > 0 => n = 0]_vars

C25_Witness ==
    /\ fixture.pc = "done" /\ fixture.outcome = "SetupError"
    /\ Cardinality(fixture.existing.users) = MaxUsers
    /\ clerk_users = fixture.existing.users
    /\ fixture.creates = 0

==========================================================================
